---------------------------- MODULE Spec2Model ----------------------------
(***************************************************************************)
(* Model of src/kwtest.py: class OrdinalTest (Kruskal-Wallis omnibus test  *)
(* and Conover-Iman post-hoc test on ordinal data).                        *)
(*                                                                         *)
(* Python values are modelled as follows.                                  *)
(*   - an instance attribute exists iff its name is in attrs (hasattr);    *)
(*   - a float is an exact rational [n, d] in lowest terms, d > 0; the     *)
(*     record with d = 0 is NaN;                                           *)
(*   - a dict is a function from its keys; self.groups gives the order of  *)
(*     iteration the code uses;                                            *)
(*   - a list is [kind |-> "list", items |-> <<...>>]; a generator object  *)
(*     is [kind |-> "generator", items |-> <<...>>] where items are the    *)
(*     values it has still to yield;                                       *)
(*   - list positions are Python's, counted from 0.                        *)
(***************************************************************************)
EXTENDS Integers, Sequences, FiniteSets, TLC

VARIABLES
    attrs,            \* names of the attributes the instance has
    data,             \* self.data: [groups, values]
    groups,           \* self.groups: the registry, list(set(groups))
    alpha,            \* self.alpha
    group_indices,    \* self.group_indices
    value_ranks,      \* self.value_ranks
    group_counts,     \* self.group_counts
    group_means,      \* self.group_means
    degf,             \* self.degf
    h_value,          \* self.h_value
    critical_value,   \* self.critical_value
    p_value,          \* self.p_value
    outcome,          \* self.outcome
    conover_results,  \* self.conover_results
    call,             \* the method invoked last
    args,             \* the arguments it was given
    exc,              \* the exception that call raised, "" when it returned
    ret               \* what that call returned (helpers only)

inst == <<attrs, data, groups, alpha, group_indices, value_ranks, group_counts,
          group_means, degf, h_value, critical_value, p_value, outcome,
          conover_results>>
vars == <<attrs, data, groups, alpha, group_indices, value_ranks, group_counts,
          group_means, degf, h_value, critical_value, p_value, outcome,
          conover_results, call, args, exc, ret>>

\* ------------------------------------------------------------- bounds
\* Longest observation set of the evaluator life cycle (Spec).
MaxObs == 3
\* Longest value sequence handed to get_ranks (SpecRanks).
MaxLen == 4
\* Longest label sequence handed to the group aggregator (SpecGroups).
MaxGrp == 3
\* Largest ordinal value.
MaxVal == 3

Labels == {"A", "B", "C"}
LifeLabels == {"A", "B"}

\* ------------------------------------------------------------ numbers
RECURSIVE Gcd(_, _)
Gcd(a, b) == IF b = 0 THEN a ELSE Gcd(b, a % b)

Abs(x) == IF x < 0 THEN -x ELSE x

NaN == [n |-> 0, d |-> 0]

\* The float n/d (d # 0), in lowest terms.
Rat(n, d) ==
    LET g == Gcd(Abs(n), Abs(d))
        s == IF d < 0 THEN -1 ELSE 1
    IN  [n |-> s * (n \div g), d |-> s * (d \div g)]

Int2Rat(k) == [n |-> k, d |-> 1]
IsNaN(x) == x.d = 0
RAdd(x, y) == IF IsNaN(x) \/ IsNaN(y) THEN NaN ELSE Rat(x.n * y.d + y.n * x.d, x.d * y.d)
RSub(x, y) == IF IsNaN(x) \/ IsNaN(y) THEN NaN ELSE Rat(x.n * y.d - y.n * x.d, x.d * y.d)
RMul(x, y) == IF IsNaN(x) \/ IsNaN(y) THEN NaN ELSE Rat(x.n * y.n, x.d * y.d)
\* x / y for y # 0 (Python raises ZeroDivisionError for y = 0: callers test it).
RDiv(x, y) == IF IsNaN(x) \/ IsNaN(y) THEN NaN ELSE Rat(x.n * y.d, x.d * y.n)
RAbs(x) == [n |-> Abs(x.n), d |-> x.d]
\* x >= y; every comparison with NaN is False.
RGe(x, y) == ~IsNaN(x) /\ ~IsNaN(y) /\ x.n * y.d >= y.n * x.d
IsZero(x) == ~IsNaN(x) /\ x.n = 0

RECURSIVE RSum(_)
RSum(s) == IF s = <<>> THEN Int2Rat(0) ELSE RAdd(Head(s), RSum(Tail(s)))

\* sum(range(a, b))
RECURSIVE SumRange(_, _)
SumRange(a, b) == IF a >= b THEN 0 ELSE a + SumRange(a + 1, b)

\* ----------------------------------------------------- Python objects
PyList(s) == [kind |-> "list", items |-> s]
PyGen(s) == [kind |-> "generator", items |-> s]

\* len(obj): a generator has no len().
PyLen(obj) == IF obj.kind = "list" THEN [err |-> "", val |-> Len(obj.items)]
              ELSE [err |-> "TypeError", val |-> 0]

RECURSIVE IndexOf(_, _, _)
\* The 1-based place of x's first occurrence in s from place k on, 0 when none.
IndexOf(s, x, k) == IF k > Len(s) THEN 0
                    ELSE IF s[k] = x THEN k ELSE IndexOf(s, x, k + 1)

\* `x in obj`: [found, rest]. On a list nothing is consumed; a generator is
\* advanced up to and including the first yield equal to x, or to its end.
PyIn(x, obj) ==
    LET k == IndexOf(obj.items, x, 1)
    IN  IF obj.kind = "list" THEN [found |-> k # 0, rest |-> obj]
        ELSE IF k = 0 THEN [found |-> FALSE, rest |-> PyGen(<<>>)]
        ELSE [found |-> TRUE, rest |-> PyGen(SubSeq(obj.items, k + 1, Len(obj.items)))]

\* The sequences over S of lengths lo..hi.
SeqsOf(S, lo, hi) == UNION {[1..n -> S] : n \in lo..hi}

Range(s) == {s[i] : i \in DOMAIN s}

\* The orders list(set(...)) can give: every arrangement of the distinct labels
\* (string hashing is randomised per process).
Perms(S) == {p \in [1..Cardinality(S) -> S] : Range(p) = S}

\* ---------------------------------------------------------- get_ranks
RECURSIVE InsertPair(_, _)
\* sorted() is stable: a pair goes after the pairs whose value is <= its own.
InsertPair(sorted, pair) ==
    IF sorted = <<>> THEN <<pair>>
    ELSE IF sorted[Len(sorted)][2] <= pair[2] THEN Append(sorted, pair)
    ELSE Append(InsertPair(SubSeq(sorted, 1, Len(sorted) - 1), pair), sorted[Len(sorted)])

RECURSIVE SortPairs(_, _)
\* sorted(indexed_numbers, key=lambda x: x[1]) of the first k pairs <<index, value>>.
SortPairs(values, k) ==
    IF k = 0 THEN <<>>
    ELSE InsertPair(SortPairs(values, k - 1), <<k - 1, values[k]>>)

RECURSIVE RunEnd(_, _, _)
\* The inner while loop: the first j >= i with j = len or a different value.
RunEnd(sorted_pairs, current_value, j) ==
    IF j < Len(sorted_pairs) /\ sorted_pairs[j + 1][2] = current_value
    THEN RunEnd(sorted_pairs, current_value, j + 1)
    ELSE j

\* Ties get the lowest rank of the run (no averaging).
avg_rank_min(i, j) == Rat(i + 1, 1)

\* The range of ranks shifted down by one.
avg_rank_shift(i, j) == Rat(SumRange(i, j), j - i)

\* avg_rank of the run at sorted positions [i, j).
avg_rank(i, j) == Rat(SumRange(i + 1, j + 1), j - i)

RECURSIVE RankLoop(_, _, _)
\* The outer while loop; ranks is the dict built so far.
RankLoop(sorted_pairs, i, ranks) ==
    IF i >= Len(sorted_pairs) THEN ranks
    ELSE LET j == RunEnd(sorted_pairs, sorted_pairs[i + 1][2], i)
             same_value_indices == {sorted_pairs[m + 1][1] : m \in i..(j - 1)}
             r == avg_rank(i, j)
         IN  RankLoop(sorted_pairs, j,
                      [idx \in DOMAIN ranks \cup same_value_indices |->
                          IF idx \in same_value_indices THEN r ELSE ranks[idx]])

\* get_ranks(self) on self.data["values"] = values.
get_ranks(values) ==
    LET ranks == RankLoop(SortPairs(values, Len(values)), 0, <<>>)
    IN  [p \in 1..Len(values) |-> ranks[p - 1]]

\* ----------------------------------------------------- group aggregator
RECURSIVE IndicesWhere(_, _, _)
\* The positions i >= k - 1 (ascending, from 0) with group_values[i] = g.
IndicesWhere(group_values, g, k) ==
    IF k > Len(group_values) THEN <<>>
    ELSE IF group_values[k] = g THEN <<k - 1>> \o IndicesWhere(group_values, g, k + 1)
    ELSE IndicesWhere(group_values, g, k + 1)

\* The label a generator of the comprehension compares with when it runs: the
\* generator expression closes over the comprehension's variable `group`, which
\* holds the last label of self.groups once the comprehension has finished.
bound_group(registry, group) == registry[Len(registry)]

\* get_group_indices(self): one generator object per label of the registry.
get_group_indices(group_values, registry) ==
    [group \in Range(registry) |->
        PyGen(IndicesWhere(group_values, bound_group(registry, group), 1))]

\* What iterating obj to its end yields, as a set.
Yields(obj) == Range(obj.items)

\* get_group_counts(self, group_indices): len() of every entry.
get_group_counts(gi, registry) ==
    IF \E group \in Range(registry) : PyLen(gi[group]).err # ""
    THEN [err |-> "TypeError", val |-> <<>>]
    ELSE [err |-> "", val |-> [group \in Range(registry) |-> PyLen(gi[group]).val]]

RECURSIVE MeanScan(_, _, _, _)
\* The list comprehension of get_group_means for one group: i runs over
\* enumerate(value_ranks) and `i in group_indices[group]` is evaluated for each.
\* [sum, rest]: the sum of the values kept and the object afterwards.
MeanScan(obj, ranks, i, acc) ==
    IF i >= Len(ranks) THEN [sum |-> acc, rest |-> obj]
    ELSE LET t == PyIn(i, obj)
         IN  MeanScan(t.rest, ranks, i + 1,
                      IF t.found THEN RAdd(acc, ranks[i + 1]) ELSE acc)

\* get_group_means(self, group_indices, group_counts, value_ranks); every count
\* handed in is >= 1.
get_group_means(gi, counts, ranks, registry) ==
    [group \in Range(registry) |->
        RDiv(MeanScan(gi[group], ranks, 0, Int2Rat(0)).sum, Int2Rat(counts[group]))]

\* The objects of group_indices once get_group_means has run over them.
after_group_means(gi, ranks, registry) ==
    [group \in DOMAIN gi |->
        IF group \in Range(registry)
        THEN MeanScan(gi[group], ranks, 0, Int2Rat(0)).rest ELSE gi[group]]

\* ------------------------------------------------------- Kruskal-Wallis
RECURSIVE KwTerms(_, _, _, _, _)
\* The generator summed in calculate_kw_h, over the registry from place k on.
KwTerms(registry, k, means, counts, er_var) ==
    IF k > Len(registry) THEN Int2Rat(0)
    ELSE LET group == registry[k]
             dev == RSub(means[group], er_var[1])
         IN  RAdd(RDiv(RMul(Int2Rat(counts[group]), RMul(dev, dev)), er_var[2]),
                  KwTerms(registry, k + 1, means, counts, er_var))

\* calculate_kw_h(self, n_cases, group_means, group_counts, expected_rank, variance)
calculate_kw_h(n_cases, means, counts, expected_rank, variance, registry) ==
    IF registry # <<>> /\ IsZero(variance)
    THEN [err |-> "ZeroDivisionError", val |-> NaN]
    ELSE [err |-> "",
          val |-> RMul(Rat(n_cases - 1, 12),
                       KwTerms(registry, 1, means, counts, <<expected_rank, variance>>))]

\* The significance levels a caller passes: 0.05 and 0.9.
Alphas == {Rat(1, 20), Rat(9, 10)}

\* stats.chi2.ppf(1 - alpha, degf) to four significant digits; NaN when degf <= 0.
Chi2Ppf(a, df) ==
    IF df <= 0 THEN NaN
    ELSE CASE a = Rat(1, 20) /\ df = 1 -> Rat(3841, 1000)
           [] a = Rat(1, 20) /\ df = 2 -> Rat(5991, 1000)
           [] a = Rat(9, 10) /\ df = 1 -> Rat(158, 10000)
           [] a = Rat(9, 10) /\ df = 2 -> Rat(2107, 10000)

\* stats.t.ppf(1 - alpha, degf) to four significant digits; NaN when degf <= 0.
TPpf(a, df) ==
    IF df <= 0 THEN NaN
    ELSE CASE a = Rat(1, 20) /\ df = 1 -> Rat(6314, 1000)
           [] a = Rat(1, 20) /\ df = 2 -> Rat(2920, 1000)
           [] a = Rat(9, 10) /\ df = 1 -> Rat(-3078, 1000)
           [] a = Rat(9, 10) /\ df = 2 -> Rat(-1886, 1000)

Rejected == "Null hypothesis rejected"
NotRejected == "Null hypothesis not rejected"
NoDataError == "ValueError: No data provided"
SequencingError == "ValueError: Must have rejected null hypothesis"

\* 1 - cdf(x, df), kept as the pair it is a function of.
PValue(x, df) == [x |-> x, df |-> df]

\* --------------------------------------------------------- Conover-Iman
RECURSIVE PairsFrom(_, _, _)
\* combinations(self.groups, 2) from the pair of places (i, j) on.
PairsFrom(registry, i, j) ==
    IF i >= Len(registry) THEN <<>>
    ELSE IF j > Len(registry) THEN PairsFrom(registry, i + 1, i + 2)
    ELSE <<<<registry[i], registry[j]>>>> \o PairsFrom(registry, i, j + 1)

Combinations2(registry) == PairsFrom(registry, 1, 2)

RECURSIVE SumSquares(_)
\* sum([value**2 for value in self.data["values"]])
SumSquares(values) ==
    IF values = <<>> THEN 0 ELSE Head(values) * Head(values) + SumSquares(Tail(values))

\* degf of one pair: n = n_i + n_j, the two groups' observations only.
pair_degf(n, k) == n - k

\* One pass of the loop body for the pair (Ri, Rj): [err, row].
ConoverRow(Ri, Rj, k, R) ==
    IF Ri \notin DOMAIN group_indices \/ Rj \notin DOMAIN group_indices
    THEN [err |-> "KeyError", row |-> <<>>]
    ELSE IF PyLen(group_indices[Ri]).err # "" \/ PyLen(group_indices[Rj]).err # ""
    THEN [err |-> "TypeError", row |-> <<>>]
    ELSE IF Ri \notin DOMAIN group_means \/ Rj \notin DOMAIN group_means
    THEN [err |-> "KeyError", row |-> <<>>]
    ELSE
      LET n_i == PyLen(group_indices[Ri]).val
          n_j == PyLen(group_indices[Rj]).val
          n == n_i + n_j
          diff == RAbs(RSub(group_means[Ri], group_means[Rj]))
      IN  IF n - 1 = 0 \/ n - k = 0 \/ n_i = 0 \/ n_j = 0
          THEN [err |-> "ZeroDivisionError", row |-> <<>>]
          ELSE
            LET s2 == RMul(Rat(1, n - 1), RSub(Int2Rat(R), Rat(n * (n + 1) * (n + 1), 4)))
                se == RMul(RMul(s2, RDiv(RSub(Int2Rat(n - 1), h_value), Int2Rat(n - k))),
                           RAdd(Rat(1, n_i), Rat(1, n_j)))
            IN  IF IsZero(se) THEN [err |-> "ZeroDivisionError", row |-> <<>>]
                ELSE
                  LET t_value == RDiv(diff, se)
                      df == pair_degf(n, k)
                      crit == TPpf(alpha, df)
                  IN  [err |-> "",
                       row |-> [Ri |-> Ri, Rj |-> Rj, degf |-> df, t_value |-> t_value,
                                critical_value |-> crit, p_value |-> PValue(t_value, df),
                                outcome |-> IF RGe(t_value, crit) THEN Rejected
                                            ELSE NotRejected]]

RECURSIVE ConoverLoop(_, _, _, _, _)
\* The for loop over the pairs from place i on; rows are the records appended
\* so far (one row is one entry in each of the seven lists of the dict).
ConoverLoop(pairs, i, k, R, rows) ==
    IF i > Len(pairs) THEN [err |-> "", rows |-> rows]
    ELSE LET r == ConoverRow(pairs[i][1], pairs[i][2], k, R)
         IN  IF r.err # "" THEN [err |-> r.err, rows |-> rows]
             ELSE ConoverLoop(pairs, i + 1, k, R, Append(rows, r.row))

\* ------------------------------------------------------------- methods
Returns(name, a, e, r) == call' = name /\ args' = a /\ exc' = e /\ ret' = r

\* add_data(self, groups, values)
add_data(g, v) ==
    /\ data' = [groups |-> g, values |-> v]
    /\ groups' \in Perms(Range(g))
    /\ attrs' = attrs \cup {"data", "groups"}
    /\ Returns("add_data", <<>>, "", <<>>)
    /\ UNCHANGED <<alpha, group_indices, value_ranks, group_counts, group_means, degf,
                   h_value, critical_value, p_value, outcome, conover_results>>

\* kruskal_wallis from line 120 on.
kruskal_wallis_run(a) ==
      LET gi == get_group_indices(data.groups, groups)
          ranks == get_ranks(data.values)
          counts == get_group_counts(gi, groups)
      IN  IF counts.err # ""
          THEN \* raised at line 124: lines 120-122 have run
               /\ alpha' = a
               /\ group_indices' = gi
               /\ value_ranks' = ranks
               /\ attrs' = attrs \cup {"alpha", "group_indices", "value_ranks"}
               /\ Returns("kruskal_wallis", a, counts.err, <<>>)
               /\ UNCHANGED <<data, groups, group_counts, group_means, degf, h_value,
                              critical_value, p_value, outcome, conover_results>>
          ELSE
            LET means == get_group_means(gi, counts.val, ranks, groups)
                n_cases == Len(data.values)
                expected_rank == Rat(n_cases + 1, 2)
                variance == Rat(n_cases * n_cases - 1, 12)
                df == Len(groups) - 1
                h == calculate_kw_h(n_cases, means, counts.val, expected_rank, variance,
                                    groups)
                crit == Chi2Ppf(a, df)
            IN  /\ alpha' = a
                /\ group_indices' = after_group_means(gi, ranks, groups)
                /\ value_ranks' = ranks
                /\ group_counts' = counts.val
                /\ group_means' = means
                /\ degf' = df
                /\ UNCHANGED <<data, groups, conover_results>>
                /\ IF h.err # ""
                   THEN \* raised at line 133: lines 120-132 have run
                        /\ attrs' = attrs \cup {"alpha", "group_indices", "value_ranks",
                                                "group_counts", "group_means", "degf"}
                        /\ Returns("kruskal_wallis", a, h.err, <<>>)
                        /\ UNCHANGED <<h_value, critical_value, p_value, outcome>>
                   ELSE /\ h_value' = h.val
                        /\ critical_value' = crit
                        /\ p_value' = PValue(h.val, df)
                        /\ outcome' = IF RGe(h.val, crit) THEN Rejected ELSE NotRejected
                        /\ attrs' = attrs \cup {"alpha", "group_indices", "value_ranks",
                                                "group_counts", "group_means", "degf",
                                                "h_value", "critical_value", "p_value",
                                                "outcome"}
                        /\ Returns("kruskal_wallis", a, "", <<>>)

\* kruskal_wallis that stores alpha before it looks for the data.
kruskal_wallis_store_first(a) ==
    IF "data" \notin attrs
    THEN /\ alpha' = a
         /\ attrs' = attrs \cup {"alpha"}
         /\ Returns("kruskal_wallis", a, NoDataError, <<>>)
         /\ UNCHANGED <<data, groups, group_indices, value_ranks, group_counts,
                        group_means, degf, h_value, critical_value, p_value, outcome,
                        conover_results>>
    ELSE kruskal_wallis_run(a)

\* kruskal_wallis(self, alpha)
kruskal_wallis(a) ==
    IF "data" \notin attrs
    THEN Returns("kruskal_wallis", a, NoDataError, <<>>) /\ UNCHANGED inst
    ELSE kruskal_wallis_run(a)

\* The body of conover_iman from line 166 on.
conover_body ==
    LET k == Len(groups)
        R == SumSquares(data.values)
        res == ConoverLoop(Combinations2(groups), 1, k, R, <<>>)
    IN  /\ conover_results' = res.rows
        /\ attrs' = attrs \cup {"conover_results"}
        /\ Returns("conover_iman", <<>>, res.err, <<>>)
        /\ UNCHANGED <<data, groups, alpha, group_indices, value_ranks, group_counts,
                       group_means, degf, h_value, critical_value, p_value, outcome>>

\* conover_iman without the test that kruskal_wallis has run.
conover_iman_no_hasattr ==
    IF "outcome" \notin attrs
    THEN Returns("conover_iman", <<>>, "AttributeError", <<>>) /\ UNCHANGED inst
    ELSE IF outcome = NotRejected
    THEN Returns("conover_iman", <<>>, SequencingError, <<>>) /\ UNCHANGED inst
    ELSE conover_body

\* conover_iman(self)
conover_iman ==
    IF "h_value" \notin attrs
    THEN Returns("conover_iman", <<>>, SequencingError, <<>>) /\ UNCHANGED inst
    ELSE IF outcome = NotRejected
    THEN Returns("conover_iman", <<>>, SequencingError, <<>>) /\ UNCHANGED inst
    ELSE conover_body

\* ------------------------------------------------- the helpers, called
\* get_ranks() on the data held.
call_get_ranks ==
    /\ "data" \in attrs
    /\ Returns("get_ranks", <<>>, "", get_ranks(data.values))
    /\ UNCHANGED inst

\* get_group_indices() on the data held.
call_get_group_indices ==
    /\ "data" \in attrs
    /\ Returns("get_group_indices", <<>>, "", get_group_indices(data.groups, groups))
    /\ UNCHANGED inst

\* get_group_counts(m), m the mapping get_group_indices has just returned.
call_get_group_counts ==
    /\ call = "get_group_indices"
    /\ LET r == get_group_counts(ret, groups)
       IN  Returns("get_group_counts", ret, r.err, r.val)
    /\ UNCHANGED inst

\* get_group_means(m, counts, get_ranks()), m the mapping get_group_indices has
\* just returned and counts any count >= 1 per group.
call_get_group_means(counts) ==
    /\ call = "get_group_indices"
    /\ Returns("get_group_means", counts, "",
               get_group_means(ret, counts, get_ranks(data.values), groups))
    /\ UNCHANGED inst

\* ------------------------------------------------------ specifications
NoAttrs ==
    /\ alpha = NaN
    /\ group_indices = <<>>
    /\ value_ranks = <<>>
    /\ group_counts = <<>>
    /\ group_means = <<>>
    /\ degf = 0
    /\ h_value = NaN
    /\ critical_value = NaN
    /\ p_value = PValue(NaN, 0)
    /\ outcome = ""
    /\ conover_results = <<>>

\* OrdinalTest(): __init__ sets nothing.
Init ==
    /\ attrs = {}
    /\ data = [groups |-> <<>>, values |-> <<>>]
    /\ groups = <<>>
    /\ NoAttrs
    /\ call = "__init__" /\ args = <<>> /\ exc = "" /\ ret = <<>>

\* The value sequences of the life cycle: all tied, or all distinct.
LifeValuesOf(n) == {[i \in 1..n |-> 5], [i \in 1..n |-> i]}

\* The observation sets of the life cycle: equal-length labels and values.
LifeData ==
    UNION {{[groups |-> g, values |-> v] : v \in LifeValuesOf(Len(g))} :
              g \in SeqsOf(LifeLabels, 0, MaxObs)}

Next ==
    \/ \E d \in LifeData : add_data(d.groups, d.values)
    \/ \E a \in Alphas : kruskal_wallis(a)
    \/ conover_iman

Spec == Init /\ [][Next]_vars

\* An instance right after add_data(g, v).
Loaded(g, v) ==
    /\ attrs = {"data", "groups"}
    /\ data = [groups |-> g, values |-> v]
    /\ groups \in Perms(Range(g))
    /\ NoAttrs
    /\ call = "add_data" /\ args = <<>> /\ exc = "" /\ ret = <<>>

InitRanks == \E v \in SeqsOf(1..MaxVal, 1, MaxLen) : Loaded([i \in 1..Len(v) |-> "A"], v)

NextRanks == call_get_ranks

SpecRanks == InitRanks /\ [][NextRanks]_vars

InitGroups ==
    \E g \in SeqsOf(Labels, 1, MaxGrp) :
        \E v \in [1..Len(g) -> 1..2] : Loaded(g, v)

NextGroups ==
    \/ call_get_group_indices
    \/ call_get_group_counts
    \/ \E counts \in [Range(groups) -> 1..MaxGrp] : call_get_group_means(counts)

SpecGroups == InitGroups /\ [][NextGroups]_vars

\* ------------------------------------------- what the claims speak of
N_obs == Len(data.values)
K_groups == Cardinality(Range(data.groups))

\* The positions (from 0) that carry label g in the data held.
IndexSet(g) == {i \in 0..(Len(data.groups) - 1) : data.groups[i + 1] = g}

\* (sum of the rank-vector entries at g's positions) / |g's positions|
MeanRank(g, ranks) ==
    RDiv(RSum([m \in 1..Cardinality(IndexSet(g)) |->
                  ranks[1 + CHOOSE i \in IndexSet(g) :
                              Cardinality({x \in IndexSet(g) : x < i}) = m - 1]]),
         Int2Rat(Cardinality(IndexSet(g))))

\* (number of values strictly smaller) + (number of equal values + 1) / 2
MidRank(values, p) ==
    Rat(2 * Cardinality({q \in DOMAIN values : values[q] < values[p]})
          + Cardinality({q \in DOMAIN values : values[q] = values[p]}) + 1, 2)

HasTies(values) == \E p, q \in DOMAIN values : p # q /\ values[p] = values[q]

\* The omnibus statistic of the data held, from the groups' index sets.
OmnibusH ==
    calculate_kw_h(N_obs,
                   [g \in Range(groups) |-> MeanRank(g, get_ranks(data.values))],
                   [g \in Range(groups) |-> Cardinality(IndexSet(g))],
                   Rat(N_obs + 1, 2), Rat(N_obs * N_obs - 1, 12), groups).val

\* kruskal_wallis(args) has just been invoked on an observation set with at
\* least two groups and a residual degree of freedom for every pair, and the
\* omnibus statistic of that set reaches the critical value: a rejecting run.
RejectingRun ==
    /\ call = "kruskal_wallis"
    /\ "data" \in attrs
    /\ K_groups >= 2
    /\ \A g1, g2 \in Range(groups) :
          g1 # g2 => Cardinality(IndexSet(g1)) + Cardinality(IndexSet(g2)) > K_groups
    /\ RGe(OmnibusH, Chi2Ppf(args, K_groups - 1))

\* ------------------------------------------------------------- claims
\* C1: when an observation set has been supplied (non-empty, at least two
\* groups), kruskal_wallis(alpha) raises nothing and leaves the instance
\* evaluated: alpha, degf, h_value, critical_value, p_value, outcome and the
\* group index sets, counts and means are all stored.
C1_KwEvaluates ==
    (call = "kruskal_wallis" /\ "data" \in attrs /\ N_obs >= 1 /\ K_groups >= 2)
    => /\ exc = ""
       /\ {"alpha", "degf", "h_value", "critical_value", "p_value", "outcome",
           "group_indices", "group_counts", "group_means"} \subseteq attrs
       /\ alpha = args

\* C2: conover_iman raises the sequencing error and computes nothing whenever
\* the instance holds no Kruskal-Wallis result or the stored outcome is "not
\* rejected"; it gets past its checks only when a result is stored and rejected.
C2_ConoverGuard ==
    [][call' = "conover_iman" =>
          IF "h_value" \notin attrs \/ outcome = NotRejected
          THEN exc' = SequencingError /\ UNCHANGED inst
          ELSE exc' # SequencingError /\ outcome = Rejected]_vars

\* conover_iman was refused on an instance on which kruskal_wallis had been run.
C2_Witness ==
    /\ call = "conover_iman" /\ exc = SequencingError
    /\ "data" \in attrs /\ "alpha" \in attrs /\ "h_value" \notin attrs

\* C3: a call that raises the missing-data error or the sequencing error leaves
\* every attribute of the instance as it was.
C3_FailedCallKeepsState ==
    [][(call' \in {"kruskal_wallis", "conover_iman"}
          /\ exc' \in {NoDataError, SequencingError}) => UNCHANGED inst]_vars

\* kruskal_wallis has raised the missing-data error.
C3_Witness == call = "kruskal_wallis" /\ exc = NoDataError /\ "data" \notin attrs

\* C4: get_ranks returns as many ranks as there are values, and they sum to
\* N(N+1)/2, ties or not.
C4_RankSum ==
    call = "get_ranks"
    => Len(ret) = N_obs /\ RSum(ret) = Rat(N_obs * (N_obs + 1), 2)

\* get_ranks has run on a longest sequence with ties.
C4_Witness == call = "get_ranks" /\ N_obs = MaxLen /\ HasTies(data.values)

\* C5: get_ranks gives every position the midrank of its value; distinct values
\* get the integers 1..N in sorted order, equal values all get (N+1)/2.
C5_Midranks ==
    call = "get_ranks"
    => /\ \A p \in DOMAIN data.values : ret[p] = MidRank(data.values, p)
       /\ ~HasTies(data.values)
          => \A p \in DOMAIN data.values :
                ret[p] = Int2Rat(1 + Cardinality({q \in DOMAIN data.values :
                                                    data.values[q] < data.values[p]}))
       /\ Cardinality(Range(data.values)) = 1
          => \A p \in DOMAIN data.values : ret[p] = Rat(N_obs + 1, 2)

\* get_ranks has run on a sequence with a tied run that is not the smallest value.
C5_Witness ==
    /\ call = "get_ranks"
    /\ \E p, q \in DOMAIN data.values :
          /\ p # q /\ data.values[p] = data.values[q]
          /\ \E r \in DOMAIN data.values : data.values[r] < data.values[p]

RECURSIVE SumOver(_, _)
SumOver(f, S) ==
    IF S = {} THEN 0 ELSE LET x == CHOOSE x \in S : TRUE IN f[x] + SumOver(f, S \ {x})

\* C6: the index sets get_group_indices returns partition {0..N-1} (non-empty,
\* pairwise disjoint, covering), and get_group_counts returns their sizes, which
\* sum to N.
C6_Partition ==
    /\ call = "get_group_indices"
       => /\ \A g \in DOMAIN ret : Yields(ret[g]) # {}
          /\ \A g1, g2 \in DOMAIN ret : g1 # g2 => Yields(ret[g1]) \cap Yields(ret[g2]) = {}
          /\ UNION {Yields(ret[g]) : g \in DOMAIN ret} = 0..(N_obs - 1)
    /\ call = "get_group_counts"
       => /\ exc = ""
          /\ \A g \in Range(groups) : ret[g] = Cardinality(Yields(args[g]))
          /\ SumOver(ret, Range(groups)) = N_obs

\* C7: handed the mapping of get_group_indices, the groups' true counts and the
\* rank vector, get_group_means returns every group's mean rank.
C7_GroupMeans ==
    (call = "get_group_means" /\ \A g \in Range(groups) : args[g] = Cardinality(IndexSet(g)))
    => \A g \in Range(groups) : ret[g] = MeanRank(g, get_ranks(data.values))

C9_AllPairs ==
    [][(RejectingRun /\ call' = "conover_iman")
          => /\ exc' = ""
             /\ "conover_results" \in attrs'
             /\ Len(conover_results') = (K_groups * (K_groups - 1)) \div 2
             /\ [m \in 1..Len(conover_results') |->
                    <<conover_results'[m].Ri, conover_results'[m].Rj>>]
                  = Combinations2(groups)]_vars

=============================================================================
